---- MODULE Spec2Model ----
(***************************************************************************)
(* Model of src/app.py: the Massage work-log record keeper.                *)
(*                                                                         *)
(* The two worksheets of the spreadsheet are the persistent state.  Every  *)
(* handler of the Streamlit pages is a sequence of worksheet calls         *)
(* (get_all_records, clear, append_row, append_rows); each call is one     *)
(* atomic step of the writer (browser session) that runs the handler, so   *)
(* that two sessions interleave call by call and a call may raise.         *)
(* assigned is history: the IDs that records have been seen to hold.       *)
(*                                                                         *)
(* Units: money cells are held in thousandths (65.00 is 65000), the        *)
(* hours cell in hundredths (0.75 is 75), durations in minutes.            *)
(***************************************************************************)
EXTENDS Integers, Sequences, FiniteSets, TLC

VARIABLES recSheet, staffSheet, proc, assigned

vars == <<recSheet, staffSheet, proc, assigned>>

(***************************************************************************)
(* Bounds of the model.                                                    *)
(***************************************************************************)
MaxInitRows == 2
MaxRows == 2
MaxId == 3
NumForms == 3
NumFormsLegacy == 2
NumFormsConc == 3
NumFormsCalc == 7

(***************************************************************************)
(* Schema (src/app.py 31-45).  Column names are the English names the      *)
(* specification uses for the Chinese headers of the source.               *)
(***************************************************************************)
COLUMNS ==
  <<"ID", "date", "employeeName", "clientName", "serviceType",
    "durationMinutes", "hours", "serviceIncome", "tip", "totalIncome">>

ColSet == {COLUMNS[i] : i \in 1..Len(COLUMNS)}

\* The columns load_records back-fills with 0 (the others get "").
NumericCols ==
  {"durationMinutes", "hours", "serviceIncome", "tip", "totalIncome", "ID"}

STAFF_COLUMNS == <<"employeeName">>

DURATION_OPTIONS == <<30, 45, 60, 75, 90, 105, 120>>

(***************************************************************************)
(* Cells.  A cell of a numeric column is a number or a text (a blank, a    *)
(* word, a header name); a cell of a text column is a string.              *)
(***************************************************************************)
Num(n) == [k |-> "num", v |-> n, s |-> ""]
Txt(t) == [k |-> "txt", v |-> 0, s |-> t]
IsNum(c) == c.k = "num"

\* The header row ws.append_row(COLUMNS) writes, cell by cell.
HeaderCells(H) == [c \in H |-> IF c \in NumericCols THEN Txt(c) ELSE c]
HeaderRow(H) == [k |-> "hdr", v |-> HeaderCells(H)]
DataRow(r) == [k |-> "row", v |-> r]

(***************************************************************************)
(* Pure helpers.                                                           *)
(***************************************************************************)
SeqToSet(s) == {s[i] : i \in 1..Len(s)}

SetMax(S) == CHOOSE x \in S : \A y \in S : y <= x

\* the sequence s with every element worked out once
AsTuple(s) == SubSeq(s, 1, Len(s))

RECURSIVE FilterSeq(_, _)
\* the rows of s at the positions in keep, in their order
FilterSeq(s, keep) ==
  IF s = <<>> THEN <<>>
  ELSE LET rest == FilterSeq(Tail(s), {i - 1 : i \in keep \ {1}})
       IN IF 1 \in keep THEN <<Head(s)>> \o rest ELSE rest

\* round(x, 2) of Python on a value given in thousandths: to the nearest
\* hundredth, an exact tie to the even hundredth.  The amounts of the model
\* are multiples of 0.125, which binary floating point holds exactly.
Round2(m) ==
  LET q == m \div 10
      r == m % 10
  IN IF r < 5 THEN q * 10
     ELSE IF r > 5 THEN (q + 1) * 10
     ELSE IF q % 2 = 0 THEN q * 10 ELSE (q + 1) * 10

\* round(duration / 60, 2) in hundredths: duration*100/60 = duration*5/3 is
\* never half way between two integers.
HoursOf(duration) == (10 * duration + 3) \div 6

(***************************************************************************)
(* A worksheet is the sequence of its physical rows.  get_all_records      *)
(* takes the first row as the keys and turns every later row into a        *)
(* mapping from key to cell.                                               *)
(***************************************************************************)
\* The keys that are column names.  A first row that is a data row (the
\* header was cleared under it) gives keys that name no column.
Keys(sheet) ==
  IF sheet # <<>> /\ sheet[1].k = "hdr" THEN DOMAIN sheet[1].v ELSE {}

get_all_records(sheet) ==
  IF Len(sheet) < 2 THEN <<>>
  ELSE [i \in 1..(Len(sheet) - 1) |->
          [c \in Keys(sheet) \cap DOMAIN sheet[i + 1].v |-> sheet[i + 1].v[c]]]

\* A first row of data cells may repeat a value; get_all_records then either
\* raises (the header is not unique) or keeps the last of the equal keys.
LoadMayRaise(sheet) == sheet # <<>> /\ sheet[1].k = "row"

\* load_records, lines 106-112: a column of COLUMNS that the sheet lacks is
\* filled with 0 (numeric columns) or "" (text columns).
BackFill(d) ==
  [c \in ColSet |->
     IF c \in DOMAIN d THEN d[c]
     ELSE IF c \in NumericCols THEN Num(0) ELSE ""]

\* mutant of RepairIds: the rows are numbered 1..N whatever they hold
RepairIdsRenumber(cells) == [i \in 1..Len(cells) |-> i]

\* load_records, lines 115-125, on the ID cells of the rows in row order:
\* pd.to_numeric(errors="coerce") makes every text NaN; all NaN gives 1..N;
\* otherwise the NaN rows get max+1, max+2, ... in row order.
RepairIds(cells) ==
  LET nan == {j \in 1..Len(cells) : ~IsNum(cells[j])}
      nums == {cells[i].v : i \in (1..Len(cells)) \ nan}
  IN IF nums = {} THEN [i \in 1..Len(cells) |-> i]
     ELSE [i \in 1..Len(cells) |->
             IF i \notin nan THEN cells[i].v
             ELSE SetMax(nums) + Cardinality({j \in nan : j <= i})]

\* load_records: the table the handlers work on, every row over COLUMNS
\* with an integer ID.
load_records(sheet) ==
  LET filled == [i \in 1..Len(get_all_records(sheet)) |->
                   BackFill(get_all_records(sheet)[i])]
      ids == RepairIds([i \in 1..Len(filled) |-> filled[i].ID])
  IN [i \in 1..Len(filled) |-> [filled[i] EXCEPT !.ID = Num(ids[i])]]

\* load_staff: the names of the roster, "" where the column is missing.
StaffKeys(sheet) ==
  IF sheet # <<>> /\ sheet[1].k = "hdr" THEN {"employeeName"} ELSE {}

load_staff(sheet) ==
  IF Len(sheet) < 2 THEN <<>>
  ELSE [i \in 1..(Len(sheet) - 1) |->
          IF "employeeName" \in StaffKeys(sheet)
          THEN sheet[i + 1].v.employeeName ELSE ""]

StaffHeaderRow == [k |-> "hdr", v |-> [employeeName |-> "employeeName"]]
StaffRow(n) == [k |-> "row", v |-> [employeeName |-> n]]

(***************************************************************************)
(* The three worksheet calls of save_all and save_staff.                   *)
(***************************************************************************)
ws_clear(sheet) == <<>>
ws_append_row(sheet, row) == Append(sheet, row)
\* mutant of ws_append_rows: only the first of the rows is stored
ws_append_first_row(sheet, rows) == Append(sheet, rows[1])

ws_append_rows(sheet, rows) == sheet \o rows

IdsOf(df) == {df[i].ID.v : i \in 1..Len(df)}

(***************************************************************************)
(* Form inputs.  Form(i) is the i-th submission the model enumerates: the  *)
(* durations run through DURATION_OPTIONS, the amounts through multiples   *)
(* of 0.125, the second form of every four has an empty client name;      *)
(* every form is also submitted with the employee name left empty.         *)
(***************************************************************************)
Dates == <<"2025-10-01", "2025-11-02">>
Names == <<"Ann", "Bo">>
IncomeIn == <<65000, 48125, 0>>
TipIn == <<0, 5125>>

Form(i) ==
  [date |-> Dates[(i % 2) + 1],
   employeeName |-> Names[((i \div 2) % 2) + 1],
   clientName |-> IF i % 4 = 2 THEN "" ELSE "c1",
   durationMinutes |-> DURATION_OPTIONS[((i - 1) % 7) + 1],
   serviceIncome |-> IncomeIn[(i % 3) + 1],
   tip |-> TipIn[((i \div 3) % 2) + 1]]

\* lines 275-282: the employee is chosen from the roster or typed in, and the
\* typed name may be left empty.
Forms(n) ==
  {Form(i) : i \in 1..n} \cup {[Form(i) EXCEPT !.employeeName = ""] : i \in 1..n}

\* The submissions each specification draws from.
AllForms == Forms(NumForms)
LegacyForms == Forms(NumFormsLegacy)
ConcForms == Forms(NumFormsConc)
CalcForms == Forms(NumFormsCalc)

NoForm ==
  [date |-> "", employeeName |-> "", clientName |-> "",
   durationMinutes |-> 0, serviceIncome |-> 0, tip |-> 0]

\* pd.to_datetime on a date cell: a date string parses to its year, month
\* and day, "" is NaT, any other text raises where errors="coerce" is not
\* given (lines 376, 557) and is NaT where it is (line 215).
ParseDate ==
  ("2025-10-01" :> <<2025, 10, 1>>) @@ ("2025-10-15" :> <<2025, 10, 15>>)
    @@ ("2025-11-02" :> <<2025, 11, 2>>)

ParsesAsDate(s) == s \in DOMAIN ParseDate
GarbageDate(s) == s # "" /\ ~ParsesAsDate(s)

(***************************************************************************)
(* page_add_record, lines 286 and 313-331: the record of a submission.     *)
(***************************************************************************)
\* mutants of NewId: the number of rows plus one; the largest ID itself
NewIdByCount(df) == Len(df) + 1
NewIdNoIncrement(df) == IF df # <<>> THEN SetMax(IdsOf(df)) ELSE 1

\* mutant of NewId: the smallest positive integer the table does not hold
NewIdFirstFree(df) ==
  CHOOSE n \in 1..(Len(df) + 1) :
    n \notin IdsOf(df) /\ \A m \in 1..(n - 1) : m \in IdsOf(df)

\* mutant of NewId: a number is left out after the largest ID
NewIdSkipsOne(df) == IF df # <<>> THEN SetMax(IdsOf(df)) + 2 ELSE 2

NewId(df) == IF df # <<>> THEN SetMax(IdsOf(df)) + 1 ELSE 1

\* mutant of MissingName: only the employee name is required
MissingEmployeeOnly(f) == f.employeeName = ""

\* line 309: not staff_name or not client_name
MissingName(f) == f.employeeName = "" \/ f.clientName = ""

NewRecord(f, id) ==
  [ID |-> Num(id),
   date |-> f.date,
   employeeName |-> f.employeeName,
   clientName |-> f.clientName,
   serviceType |-> "Massage",
   durationMinutes |-> Num(f.durationMinutes),
   hours |-> Num(HoursOf(f.durationMinutes)),
   serviceIncome |-> Num(f.serviceIncome),
   tip |-> Num(f.tip),
   totalIncome |-> Num(Round2(f.serviceIncome + f.tip))]

\* mutant of ApplyEdit: the total is left as it was
ApplyEditStaleTotal(row, f) ==
  [row EXCEPT
     !.date = f.date,
     !.employeeName = f.employeeName,
     !.clientName = f.clientName,
     !.durationMinutes = Num(f.durationMinutes),
     !.hours = Num(HoursOf(f.durationMinutes)),
     !.serviceIncome = Num(f.serviceIncome),
     !.tip = Num(f.tip)]

\* page_summary, lines 504-511: the edited row; its ID cell is not assigned.
\* (A column of integers that receives a float is taken to widen, as pandas 2
\* does.)
ApplyEdit(row, f) ==
  [row EXCEPT
     !.date = f.date,
     !.employeeName = f.employeeName,
     !.clientName = f.clientName,
     !.durationMinutes = Num(f.durationMinutes),
     !.hours = Num(HoursOf(f.durationMinutes)),
     !.serviceIncome = Num(f.serviceIncome),
     !.tip = Num(f.tip),
     !.totalIncome = Num(Round2(f.serviceIncome + f.tip))]

\* lines 498-502: the first row whose ID is id (0 when there is none).
FindIdx(df, id) ==
  IF id \in IdsOf(df)
  THEN CHOOSE i \in 1..Len(df) :
         df[i].ID.v = id /\ \A j \in 1..(i - 1) : df[j].ID.v # id
  ELSE 0

\* mutant of DropIds: only the first row of each selected ID is dropped
DropFirstOfIds(df, ids) ==
  FilterSeq(df, {i \in 1..Len(df) :
                   \/ df[i].ID.v \notin ids
                   \/ \E j \in 1..(i - 1) : df[j].ID.v = df[i].ID.v})

\* line 573: df_all[~df_all["ID"].isin(selected_ids)]
DropIds(df, ids) == FilterSeq(df, {i \in 1..Len(df) : df[i].ID.v \notin ids})

(***************************************************************************)
(* make_summary (176-186) and to_excel_all_bytes (201-250).  groupby and   *)
(* sorted put their keys in ascending order: texts as Python compares      *)
(* strings, months by year and month number.                               *)
(***************************************************************************)
\* the texts of the model in the order Python compares them
TextOrder ==
  <<"", "2025-10-01", "2025-10-15", "2025-11-02", "Ann", "Bo", "soon">>

Rank(t) == CHOOSE i \in 1..Len(TextOrder) : TextOrder[i] = t

KeyLess(a, b) ==
  Rank(a[1]) < Rank(b[1]) \/ (a[1] = b[1] /\ Rank(a[2]) < Rank(b[2]))

MonthLess(a, b) == a[1] < b[1] \/ (a[1] = b[1] /\ a[2] < b[2])

\* the (date, employee) keys of K in ascending order
SortedKeys(K) ==
  CHOOSE s \in [1..Cardinality(K) -> K] :
    \A i, j \in 1..Cardinality(K) : i < j => KeyLess(s[i], s[j])

\* the months of K in ascending order
SortedMonths(K) ==
  CHOOSE s \in [1..Cardinality(K) -> K] :
    \A i, j \in 1..Cardinality(K) : i < j => MonthLess(s[i], s[j])

RECURSIVE SumCol(_, _, _)
\* .sum() of column c over the rows at the positions in rows
SumCol(df, rows, c) ==
  IF rows = {} THEN 0
  ELSE LET i == CHOOSE i \in rows : TRUE
       IN df[i][c].v + SumCol(df, rows \ {i}, c)

GroupKey(r) == <<r.date, r.employeeName>>

\* mutant of make_summary: the rows are grouped by date alone
make_summary_by_date(df) ==
  IF df = <<>> THEN <<>>
  ELSE LET keys == SortedKeys({<<df[i].date, "">> : i \in 1..Len(df)})
       IN [k \in 1..Len(keys) |->
             LET rows == {i \in 1..Len(df) : df[i].date = keys[k][1]}
             IN [date |-> keys[k][1],
                 employeeName |-> df[CHOOSE i \in rows : TRUE].employeeName,
                 hours |-> Num(SumCol(df, rows, "hours")),
                 serviceIncome |-> Num(SumCol(df, rows, "serviceIncome")),
                 tip |-> Num(SumCol(df, rows, "tip")),
                 totalIncome |-> Num(SumCol(df, rows, "totalIncome"))]]

make_summary(df) ==
  IF df = <<>> THEN <<>>
  ELSE LET keys == SortedKeys({GroupKey(df[i]) : i \in 1..Len(df)})
       IN [k \in 1..Len(keys) |->
             LET rows == {i \in 1..Len(df) : GroupKey(df[i]) = keys[k]}
             IN [date |-> keys[k][1],
                 employeeName |-> keys[k][2],
                 hours |-> Num(SumCol(df, rows, "hours")),
                 serviceIncome |-> Num(SumCol(df, rows, "serviceIncome")),
                 tip |-> Num(SumCol(df, rows, "tip")),
                 totalIncome |-> Num(SumCol(df, rows, "totalIncome"))]]

\* lines 215-217: the year and month of a date, <<>> (NaN) where the date
\* does not parse
YearMonth(d) ==
  IF ParsesAsDate(d) THEN <<ParseDate[d][1], ParseDate[d][2]>> ELSE <<>>

\* lines 234-238: the row of totals that ends a month's sheet
TotalRow(month_df) ==
  [c \in ColSet |->
     IF c = "date" THEN "Total"
     ELSE IF c \in {"serviceIncome", "tip", "totalIncome"}
     THEN Num(SumCol(month_df, 1..Len(month_df), c))
     ELSE IF c \in NumericCols THEN Txt("") ELSE ""]

\* mutant of MonthRows: the month's rows without the row of totals
MonthRowsNoTotal(df, ym) ==
  FilterSeq(df, {i \in 1..Len(df) : YearMonth(df[i].date) = ym})

\* lines 230-243: the rows of the sheet of month ym
MonthRows(df, ym) ==
  LET month_df == FilterSeq(df, {i \in 1..Len(df) : YearMonth(df[i].date) = ym})
  IN Append(month_df, TotalRow(month_df))

\* lines 229-246: the per-month sheets in the order they are written
MonthSheets(df) ==
  LET yms == SortedMonths({YearMonth(df[i].date) : i \in 1..Len(df)} \ {<<>>})
  IN [k \in 1..Len(yms) |-> [name |-> yms[k], rows |-> MonthRows(df, yms[k])]]

\* lines 220-226: the monthly summary sheet
MonthlySummary(df) ==
  LET yms == SortedMonths({YearMonth(df[i].date) : i \in 1..Len(df)} \ {<<>>})
  IN [k \in 1..Len(yms) |->
        LET rows == {i \in 1..Len(df) : YearMonth(df[i].date) = yms[k]}
        IN [month |-> yms[k],
            serviceIncome |-> Num(SumCol(df, rows, "serviceIncome")),
            tip |-> Num(SumCol(df, rows, "tip")),
            totalIncome |-> Num(SumCol(df, rows, "totalIncome"))]]

\* the workbook of the full export, sheet by sheet; the monthly sheets are
\* written only for a table that has rows (line 214)
to_excel_all_bytes(records_df, staff_df) ==
  [all |-> records_df,
   summary |-> make_summary(records_df),
   staff |-> staff_df,
   monthly |-> IF records_df = <<>> THEN <<>> ELSE MonthlySummary(records_df),
   months |-> IF records_df = <<>> THEN <<>> ELSE MonthSheets(records_df)]

(***************************************************************************)
(* The filtered frame of page_summary (359-382) and page_delete_records    *)
(* (541-563): an optional staff filter over the non-blank names, then the  *)
(* date range, which raises on a date that does not parse and drops the    *)
(* rows whose date is NaT.                                                 *)
(***************************************************************************)
NonBlankNames(df) == {df[i].employeeName : i \in 1..Len(df)} \ {""}

StaffFilters(df) == SUBSET NonBlankNames(df)

InFrame(df, F) ==
  {i \in 1..Len(df) : F = {} \/ df[i].employeeName \in F}

FrameOk(df, F) == \A i \in InFrame(df, F) : ~GarbageDate(df[i].date)

Shown(df, F) == {i \in InFrame(df, F) : ParsesAsDate(df[i].date)}

ShownIds(df, F) == {df[i].ID.v : i \in Shown(df, F)}

\* lines 441-494: the row the edit form shows, whose duration, income and tip
\* cells int() and float() must accept.
FormRow(df, F, id) ==
  df[CHOOSE i \in Shown(df, F) :
       df[i].ID.v = id /\ \A j \in Shown(df, F) : df[j].ID.v = id => i <= j]

FormRowOk(r) ==
  IsNum(r.durationMinutes) /\ IsNum(r.serviceIncome) /\ IsNum(r.tip)

(***************************************************************************)
(* Writers.  proc[w] is the position of writer w in the handler it runs    *)
(* and the handler's local variables.  pre, base and nw are history:       *)
(* the sheets when the handler started, the table its decisive load        *)
(* returned, and the number of worksheet writes it has issued.             *)
(* frame, summary and book are what a run of the summary page computed:   *)
(* the filtered frame, its summary and the workbook of the full export.    *)
(***************************************************************************)
Writers == {1, 2}

Idle ==
  [pc |-> "idle", op |-> "none", df |-> <<>>, sdf |-> <<>>, id |-> 0,
   ids |-> {}, name |-> "", form |-> NoForm, res |-> "", cnt |-> 0,
   base |-> <<>>, pre |-> [rec |-> <<>>, staff |-> <<>>], nw |-> 0,
   frame |-> <<>>, summary |-> <<>>, book |-> <<>>]

Start(op) ==
  [Idle EXCEPT !.op = op, !.pre = [rec |-> recSheet, staff |-> staffSheet]]

Finish(p, res) == [p EXCEPT !.pc = "done", !.res = res]

\* The outcomes of load_records on the Records sheet as it stands.
LoadOutcomes(sheet) ==
  {[ok |-> TRUE, df |-> load_records(sheet)]}
    \cup (IF LoadMayRaise(sheet) THEN {[ok |-> FALSE, df |-> <<>>]} ELSE {})

(***************************************************************************)
(* save_staff (157-163) and save_all (130-137), one worksheet call a step. *)
(***************************************************************************)
\* where a handler goes on after save_staff returns
AfterStaff(p) == IF p.op \in {"add", "upd"} THEN "rec_clear" ELSE "done"

StaffClear(w) ==
  /\ proc[w].pc = "st_clear"
  /\ staffSheet' = ws_clear(staffSheet)
  /\ proc' = [proc EXCEPT ![w].pc = "st_hdr", ![w].nw = @ + 1]
  /\ UNCHANGED <<recSheet, assigned>>

StaffHeader(w) ==
  /\ proc[w].pc = "st_hdr"
  /\ staffSheet' = ws_append_row(staffSheet, StaffHeaderRow)
  /\ proc' = [proc EXCEPT
                ![w].pc = IF proc[w].sdf = <<>> THEN AfterStaff(proc[w])
                          ELSE "st_rows",
                ![w].res = IF proc[w].sdf = <<>> /\ AfterStaff(proc[w]) = "done"
                           THEN "ok" ELSE @,
                ![w].nw = @ + 1]
  /\ UNCHANGED <<recSheet, assigned>>

StaffRows(w) ==
  /\ proc[w].pc = "st_rows"
  /\ staffSheet' =
       ws_append_rows(staffSheet,
                      [i \in 1..Len(proc[w].sdf) |-> StaffRow(proc[w].sdf[i])])
  /\ proc' = [proc EXCEPT
                ![w].pc = AfterStaff(proc[w]),
                ![w].res = IF AfterStaff(proc[w]) = "done" THEN "ok" ELSE @,
                ![w].nw = @ + 1]
  /\ UNCHANGED <<recSheet, assigned>>

RecClear(w) ==
  /\ proc[w].pc = "rec_clear"
  /\ recSheet' = ws_clear(recSheet)
  /\ proc' = [proc EXCEPT ![w].pc = "rec_hdr", ![w].nw = @ + 1]
  /\ UNCHANGED <<staffSheet, assigned>>

RecHeader(w) ==
  /\ proc[w].pc = "rec_hdr"
  /\ recSheet' = ws_append_row(recSheet, HeaderRow(ColSet))
  /\ proc' = [proc EXCEPT
                ![w].pc = IF proc[w].df = <<>> THEN "done" ELSE "rec_rows",
                ![w].res = IF proc[w].df = <<>> THEN "ok" ELSE @,
                ![w].nw = @ + 1]
  /\ UNCHANGED <<staffSheet, assigned>>

RecRows(w) ==
  /\ proc[w].pc = "rec_rows"
  /\ recSheet' =
       ws_append_rows(recSheet,
                      [i \in 1..Len(proc[w].df) |-> DataRow(proc[w].df[i])])
  /\ proc' = [proc EXCEPT ![w].pc = "done", ![w].res = "ok", ![w].nw = @ + 1]
  /\ UNCHANGED <<staffSheet, assigned>>

(***************************************************************************)
(* ensure_staff_exists (166-173).                                          *)
(***************************************************************************)
\* mutant of EnsureStaff: the name is appended without looking it up
EnsureStaffAlwaysAppends(w) ==
  /\ proc[w].pc = "ens_load"
  /\ LET names == load_staff(staffSheet)
     IN IF proc[w].name = ""
        THEN proc' = [proc EXCEPT ![w].pc = "rec_clear"]
        ELSE proc' = [proc EXCEPT ![w].pc = "st_clear",
                                  ![w].sdf = Append(names, proc[w].name)]
  /\ UNCHANGED <<recSheet, staffSheet, assigned>>

\* mutant of EnsureStaff: a name the roster lacks is not inserted
EnsureStaffNeverInserts(w) ==
  /\ proc[w].pc = "ens_load"
  /\ proc' = [proc EXCEPT ![w].pc = "rec_clear"]
  /\ UNCHANGED <<recSheet, staffSheet, assigned>>

EnsureStaff(w) ==
  /\ proc[w].pc = "ens_load"
  /\ LET names == load_staff(staffSheet)
     IN IF proc[w].name = "" \/ proc[w].name \in SeqToSet(names)
        THEN proc' = [proc EXCEPT ![w].pc = "rec_clear"]
        ELSE proc' = [proc EXCEPT ![w].pc = "st_clear",
                                  ![w].sdf = Append(names, proc[w].name)]
  /\ UNCHANGED <<recSheet, staffSheet, assigned>>

(***************************************************************************)
(* page_add_record (255-346), the run in which the save button is pressed. *)
(***************************************************************************)
AddRecord(w, F) ==
  /\ proc[w].pc = "idle"
  /\ \E f \in F, out \in LoadOutcomes(recSheet) :
       /\ Len(out.df) <= MaxRows
       /\ IF ~out.ok
          THEN proc' = [proc EXCEPT ![w] = Finish(Start("add"), "failed")]
          ELSE IF MissingName(f)
          THEN proc' = [proc EXCEPT
                          ![w] = Finish([Start("add") EXCEPT !.form = f,
                                                             !.base = out.df],
                                        "invalid")]
          ELSE /\ Len(out.df) < MaxRows
               /\ NewId(out.df) <= MaxId
               /\ proc' = [proc EXCEPT
                             ![w] = [Start("add") EXCEPT
                                       !.pc = "ens_load",
                                       !.form = f,
                                       !.base = out.df,
                                       !.id = NewId(out.df),
                                       !.name = f.employeeName,
                                       !.df = Append(out.df,
                                                NewRecord(f, NewId(out.df)))]]
  /\ UNCHANGED <<recSheet, staffSheet, assigned>>

(***************************************************************************)
(* page_summary (351-516): the run in which "save edit" is pressed loads   *)
(* the table (354), rebuilds the form with its selected ID and values,     *)
(* then reloads (497) and edits the row in place.                          *)
(***************************************************************************)
EditForm(w, F) ==
  /\ proc[w].pc = "idle"
  /\ \E out \in LoadOutcomes(recSheet) :
       /\ Len(out.df) <= MaxRows
       /\ IF ~out.ok
          THEN proc' = [proc EXCEPT ![w] = Finish(Start("upd"), "failed")]
          ELSE /\ out.df # <<>>
               /\ \E S \in StaffFilters(out.df) :
                    /\ FrameOk(out.df, S)
                    /\ \E id \in ShownIds(out.df, S), f \in F :
                         /\ FormRowOk(FormRow(out.df, S, id))
                         /\ f.employeeName \in
                              NonBlankNames(out.df)
                                \cup {FormRow(out.df, S, id).employeeName}
                         /\ proc' = [proc EXCEPT
                                       ![w] = [Start("upd") EXCEPT
                                                 !.pc = "upd_reload",
                                                 !.id = id,
                                                 !.form = f]]
  /\ UNCHANGED <<recSheet, staffSheet, assigned>>

\* mutant of UpdateRecord: an ID that is gone is not noticed and the table
\* is saved as it was loaded
UpdateRecordUnchecked(w) ==
  /\ proc[w].pc = "upd_reload"
  /\ \E out \in LoadOutcomes(recSheet) :
       IF ~out.ok
       THEN proc' = [proc EXCEPT ![w] = Finish(proc[w], "failed")]
       ELSE proc' = [proc EXCEPT
                       ![w].pc = "ens_load",
                       ![w].base = out.df,
                       ![w].name = proc[w].form.employeeName,
                       ![w].df =
                          IF FindIdx(out.df, proc[w].id) = 0 THEN out.df
                          ELSE [out.df EXCEPT
                                  ![FindIdx(out.df, proc[w].id)] =
                                     ApplyEdit(@, proc[w].form)]]
  /\ UNCHANGED <<recSheet, staffSheet, assigned>>

\* mutant of UpdateRecord: the edited row is taken out and appended
UpdateRecordMovesRow(w) ==
  /\ proc[w].pc = "upd_reload"
  /\ \E out \in LoadOutcomes(recSheet) :
       IF ~out.ok
       THEN proc' = [proc EXCEPT ![w] = Finish(proc[w], "failed")]
       ELSE IF FindIdx(out.df, proc[w].id) = 0
       THEN proc' = [proc EXCEPT
                       ![w] = Finish([proc[w] EXCEPT !.base = out.df],
                                     "notfound")]
       ELSE proc' = [proc EXCEPT
                       ![w].pc = "ens_load",
                       ![w].base = out.df,
                       ![w].name = proc[w].form.employeeName,
                       ![w].df =
                          Append(
                            FilterSeq(out.df,
                                      (1..Len(out.df))
                                        \ {FindIdx(out.df, proc[w].id)}),
                            ApplyEdit(out.df[FindIdx(out.df, proc[w].id)],
                                      proc[w].form))]
  /\ UNCHANGED <<recSheet, staffSheet, assigned>>

UpdateRecord(w) ==
  /\ proc[w].pc = "upd_reload"
  /\ \E out \in LoadOutcomes(recSheet) :
       IF ~out.ok
       THEN proc' = [proc EXCEPT ![w] = Finish(proc[w], "failed")]
       ELSE IF FindIdx(out.df, proc[w].id) = 0
       THEN proc' = [proc EXCEPT
                       ![w] = Finish([proc[w] EXCEPT !.base = out.df],
                                     "notfound")]
       ELSE proc' = [proc EXCEPT
                       ![w].pc = "ens_load",
                       ![w].base = out.df,
                       ![w].name = proc[w].form.employeeName,
                       ![w].df =
                          [out.df EXCEPT
                             ![FindIdx(out.df, proc[w].id)] =
                                ApplyEdit(@, proc[w].form)]]
  /\ UNCHANGED <<recSheet, staffSheet, assigned>>

(***************************************************************************)
(* page_delete_records (521-575).                                          *)
(***************************************************************************)
DeleteAll(w) ==
  /\ proc[w].pc = "idle"
  /\ \E out \in LoadOutcomes(recSheet) :
       /\ Len(out.df) <= MaxRows
       /\ IF ~out.ok
          THEN proc' = [proc EXCEPT ![w] = Finish(Start("delall"), "failed")]
          ELSE /\ out.df # <<>>
               /\ proc' = [proc EXCEPT
                             ![w] = [Start("delall") EXCEPT
                                       !.pc = "rec_clear",
                                       !.base = out.df,
                                       !.df = <<>>]]
  /\ UNCHANGED <<recSheet, staffSheet, assigned>>

DeleteForm(w) ==
  /\ proc[w].pc = "idle"
  /\ \E out \in LoadOutcomes(recSheet) :
       /\ Len(out.df) <= MaxRows
       /\ IF ~out.ok
          THEN proc' = [proc EXCEPT ![w] = Finish(Start("del"), "failed")]
          ELSE /\ out.df # <<>>
               /\ \E S \in StaffFilters(out.df) :
                    /\ FrameOk(out.df, S)
                    /\ \E ids \in (SUBSET ShownIds(out.df, S)) \ {{}} :
                         proc' = [proc EXCEPT
                                    ![w] = [Start("del") EXCEPT
                                              !.pc = "del_reload",
                                              !.ids = ids]]
  /\ UNCHANGED <<recSheet, staffSheet, assigned>>

DeleteRecords(w) ==
  /\ proc[w].pc = "del_reload"
  /\ \E out \in LoadOutcomes(recSheet) :
       IF ~out.ok
       THEN proc' = [proc EXCEPT ![w] = Finish(proc[w], "failed")]
       ELSE proc' = [proc EXCEPT
                       ![w].pc = "rec_clear",
                       ![w].base = out.df,
                       ![w].df = DropIds(out.df, proc[w].ids),
                       ![w].cnt = Cardinality(proc[w].ids)]
  /\ UNCHANGED <<recSheet, staffSheet, assigned>>

(***************************************************************************)
(* page_staff_manage (580-623).                                            *)
(***************************************************************************)
NameInputs == SeqToSet(Names) \cup {""}

AddStaff(w) ==
  /\ proc[w].pc = "idle"
  /\ \E name \in NameInputs :
       LET names == load_staff(staffSheet)
       IN IF name = ""
          THEN proc' = [proc EXCEPT
                          ![w] = Finish(Start("addstaff"), "invalid")]
          ELSE IF name \in SeqToSet(names)
          THEN proc' = [proc EXCEPT
                          ![w] = Finish([Start("addstaff") EXCEPT
                                           !.name = name], "exists")]
          ELSE proc' = [proc EXCEPT
                          ![w] = [Start("addstaff") EXCEPT
                                    !.pc = "st_clear",
                                    !.name = name,
                                    !.sdf = Append(names, name)]]
  /\ UNCHANGED <<recSheet, staffSheet, assigned>>

RemoveStaff(w) ==
  /\ proc[w].pc = "idle"
  /\ LET names == load_staff(staffSheet)
     IN /\ names # <<>>
        /\ \E S \in (SUBSET SeqToSet(names)) \ {{}} :
             proc' = [proc EXCEPT
                        ![w] = [Start("rmstaff") EXCEPT
                                  !.pc = "st_clear",
                                  !.sdf =
                                     FilterSeq(names,
                                       {i \in 1..Len(names) :
                                           names[i] \notin S})]]
  /\ UNCHANGED <<recSheet, staffSheet, assigned>>

(***************************************************************************)
(* page_summary (351-431), a run in which no button is pressed: the        *)
(* filtered frame and its summary are shown, and the download button is    *)
(* given the workbook of the full export, which loads both sheets again.   *)
(***************************************************************************)
ViewSummary(w) ==
  /\ proc[w].pc = "idle"
  /\ \E out \in LoadOutcomes(recSheet) :
       /\ Len(out.df) <= MaxRows
       /\ IF ~out.ok
          THEN proc' = [proc EXCEPT ![w] = Finish(Start("view"), "failed")]
          ELSE IF out.df = <<>>
          THEN proc' = [proc EXCEPT ![w] = Finish(Start("view"), "empty")]
          ELSE \E S \in StaffFilters(out.df) :
                 IF ~FrameOk(out.df, S)
                 THEN proc' = [proc EXCEPT
                                 ![w] = Finish(Start("view"), "failed")]
                 ELSE IF Shown(out.df, S) = {}
                 THEN proc' = [proc EXCEPT
                                 ![w] = Finish([Start("view") EXCEPT
                                                  !.base = out.df], "nodata")]
                 ELSE proc' = [proc EXCEPT
                                 ![w] = [Start("view") EXCEPT
                                           !.pc = "exp_load",
                                           !.base = out.df,
                                           !.frame =
                                              FilterSeq(out.df,
                                                        Shown(out.df, S)),
                                           !.summary =
                                              make_summary(
                                                FilterSeq(out.df,
                                                          Shown(out.df, S)))]]
  /\ UNCHANGED <<recSheet, staffSheet, assigned>>

ExportAll(w) ==
  /\ proc[w].pc = "exp_load"
  /\ \E out \in LoadOutcomes(recSheet) :
       /\ Len(out.df) <= MaxRows
       /\ IF ~out.ok
          THEN proc' = [proc EXCEPT ![w] = Finish(proc[w], "failed")]
          ELSE proc' = [proc EXCEPT
                          ![w] = Finish([proc[w] EXCEPT
                                           !.df = out.df,
                                           !.book =
                                              to_excel_all_bytes(
                                                out.df,
                                                load_staff(staffSheet))],
                                        "ok")]
  /\ UNCHANGED <<recSheet, staffSheet, assigned>>

\* The run ends; the next run starts from the sheets alone.
Return(w) ==
  /\ proc[w].pc = "done"
  /\ proc' = [proc EXCEPT ![w] = Idle]
  /\ UNCHANGED <<recSheet, staffSheet, assigned>>

\* The run ends, and the IDs the records hold at its end are noted.
ReturnNoting(w) ==
  /\ proc[w].pc = "done"
  /\ proc' = [proc EXCEPT ![w] = Idle]
  /\ assigned' = assigned \cup IdsOf(load_records(recSheet))
  /\ UNCHANGED <<recSheet, staffSheet>>

\* The worksheet call the writer is about to make raises; nothing catches it
\* and the run ends there.
StoreFails(w) ==
  /\ proc[w].pc \notin {"idle", "done"}
  /\ proc' = [proc EXCEPT ![w] = Finish(proc[w], "failed")]
  /\ UNCHANGED <<recSheet, staffSheet, assigned>>

(***************************************************************************)
(* Initial sheets.  A sheet the program did not write may lack a column    *)
(* and hold any ID cell; its rows are otherwise those of Form(1), Form(2), *)
(* ...                                                                     *)
(***************************************************************************)
InitHeaders == {ColSet, ColSet \ {"ID"}, ColSet \ {"totalIncome"}}

InitIdCells == {Txt(""), Txt("x"), Num(-1), Num(0), Num(1), Num(2)}

Restrict(r, H) == [c \in H |-> r[c]]

RecSheetsOver(Hs) ==
  UNION {
    { <<HeaderRow(H)>> \o
        [i \in 1..n |->
           DataRow(Restrict([NewRecord(Form(i), 0) EXCEPT !.ID = cells[i]], H))]
      : cells \in [1..n -> IF "ID" \in H THEN InitIdCells ELSE {Num(0)}] }
    : <<H, n>> \in Hs \X (0..MaxInitRows) }

InitRecSheets == RecSheetsOver(InitHeaders)

InitStaffSheets ==
  { <<StaffHeaderRow>> \o [i \in 1..n |-> StaffRow(Names[i])] : n \in 0..1 }

Init ==
  /\ recSheet \in InitRecSheets
  /\ staffSheet \in InitStaffSheets
  /\ proc = [w \in Writers |-> Idle]
  /\ assigned = {}

\* A Records sheet as the program writes it, with unique positive IDs.
ValidIds(sheet) ==
  /\ \A i \in 2..Len(sheet) :
       sheet[i].k = "row" /\ "ID" \in DOMAIN sheet[i].v
         /\ IsNum(sheet[i].v.ID) /\ sheet[i].v.ID.v >= 1
  /\ \A i, j \in 2..Len(sheet) : i # j => sheet[i].v.ID # sheet[j].v.ID

InitValid == Init /\ Keys(recSheet) = ColSet /\ ValidIds(recSheet)

\* A Records sheet as the program writes it, the IDs of its records noted.
InitNoted ==
  /\ recSheet \in InitRecSheets
  /\ Keys(recSheet) = ColSet
  /\ ValidIds(recSheet)
  /\ staffSheet \in InitStaffSheets
  /\ proc = [w \in Writers |-> Idle]
  /\ assigned = IdsOf(load_records(recSheet))

\* A Records sheet with unique positive IDs that may lack the employee
\* column: its rows load with the employee name "" (line 112).
InitUnnamed ==
  /\ recSheet \in RecSheetsOver({ColSet, ColSet \ {"employeeName"}})
  /\ ValidIds(recSheet)
  /\ staffSheet \in InitStaffSheets
  /\ proc = [w \in Writers |-> Idle]
  /\ assigned = {}

\* A Records sheet with IDs 1..N whose date cells hold dates of two months,
\* a blank or a text that is no date.
DateCells == {"2025-10-01", "2025-10-15", "2025-11-02", "", "soon"}

InitDated ==
  /\ recSheet \in
       UNION {
         { <<HeaderRow(ColSet)>> \o
             [i \in 1..n |->
                DataRow([NewRecord(Form(i), i) EXCEPT !.date = d[i]])]
           : d \in [1..n -> DateCells] }
         : n \in 0..MaxInitRows }
  /\ staffSheet \in InitStaffSheets
  /\ proc = [w \in Writers |-> Idle]
  /\ assigned = {}

\* The handlers that create and edit records, with the calls they make.
RecordStep(w, F) ==
  \/ AddRecord(w, F)
  \/ EditForm(w, F)
  \/ UpdateRecord(w)
  \/ EnsureStaff(w)
  \/ StaffClear(w)
  \/ StaffHeader(w)
  \/ StaffRows(w)
  \/ RecClear(w)
  \/ RecHeader(w)
  \/ RecRows(w)

\* The handlers that delete records.
DeleteStep(w) ==
  \/ DeleteForm(w)
  \/ DeleteRecords(w)
  \/ DeleteAll(w)

\* The handlers of the roster page.
StaffStep(w) ==
  \/ AddStaff(w)
  \/ RemoveStaff(w)

\* One session on a sheet it may not have written itself: the record
\* handlers, run after run.
Next == RecordStep(1, LegacyForms) \/ DeleteStep(1) \/ Return(1)

Spec == Init /\ [][Next]_vars

\* One session on a sheet the program wrote: every handler, run after run.
NextAll ==
  \/ RecordStep(1, AllForms)
  \/ DeleteStep(1)
  \/ StaffStep(1)
  \/ Return(1)

SpecValid == InitValid /\ [][NextAll]_vars

\* One session that creates and edits records, over every duration option.
NextCalc == RecordStep(1, CalcForms) \/ Return(1)

SpecCalc == InitValid /\ [][NextCalc]_vars

\* One session whose worksheet calls may raise.
NextFail == NextAll \/ StoreFails(1)

SpecFail == InitValid /\ [][NextFail]_vars

\* One session that creates and edits records and manages the roster, on a
\* sheet whose records may have no employee name.
NextRoster ==
  RecordStep(1, LegacyForms) \/ StaffStep(1) \/ Return(1)

SpecRoster == InitUnnamed /\ [][NextRoster]_vars

\* The handlers of the summary page.
ViewStep(w) ==
  \/ ViewSummary(w)
  \/ ExportAll(w)

\* One session that opens the summary page again and again while another
\* session runs one handler on the records.
NextView ==
  \/ ViewStep(1)
  \/ Return(1)
  \/ RecordStep(2, LegacyForms)
  \/ DeleteStep(2)

SpecView == InitDated /\ [][NextView]_vars

\* One session that creates, edits and deletes records, run after run,
\* the IDs in use noted at the end of every run.
NextNoted ==
  \/ RecordStep(1, LegacyForms)
  \/ DeleteStep(1)
  \/ ReturnNoting(1)

SpecNoted == InitNoted /\ [][NextNoted]_vars

\* The handlers that load the table a second time before they save: edit
\* and delete, with the calls they make.
ReloadStep(w, F) ==
  \/ EditForm(w, F)
  \/ UpdateRecord(w)
  \/ EnsureStaff(w)
  \/ StaffClear(w)
  \/ StaffHeader(w)
  \/ StaffRows(w)
  \/ RecClear(w)
  \/ RecHeader(w)
  \/ RecRows(w)
  \/ DeleteStep(w)

\* One session that edits and deletes records, run after run, on a sheet
\* it may not have written itself.
NextReload == ReloadStep(1, LegacyForms) \/ Return(1)

SpecReload == Init /\ [][NextReload]_vars

\* Two sessions, each running one handler, interleaved call by call.
NextConc ==
  \E w \in Writers :
    RecordStep(w, ConcForms) \/ DeleteStep(w) \/ StaffStep(w)

SpecConc == InitValid /\ [][NextConc]_vars

(***************************************************************************)
(* Properties.                                                             *)
(***************************************************************************)
UniquePositive(df) ==
  /\ \A i \in 1..Len(df) : df[i].ID.v >= 1
  /\ \A i, j \in 1..Len(df) : i # j => df[i].ID.v # df[j].ID.v

\* C1 (SpecValid): from a Records sheet whose IDs are unique positive
\* integers, whatever handlers one session runs, every stored row holds a
\* positive integer ID and no two stored rows hold the same ID.
C1_StoredIdsUniquePositive ==
  /\ \A i \in 2..Len(recSheet) :
       /\ recSheet[i].k = "row"
       /\ IsNum(recSheet[i].v.ID)
       /\ recSheet[i].v.ID.v >= 1
  /\ \A i, j \in 2..Len(recSheet) :
       i # j => recSheet[i].v.ID.v # recSheet[j].v.ID.v

\* an add has been saved onto a table whose only row held ID 2
C1_Witness ==
  /\ proc[1].op = "add" /\ proc[1].res = "ok"
  /\ Len(recSheet) = 3
  /\ recSheet[2].v.ID.v = 2 /\ recSheet[3].v.ID.v = 3

\* C2 (Spec): whatever the ID column of the stored sheet holds, the table
\* load_records returns to a handler has a unique positive ID on every row.
C2_LoadedIdsUniquePositive ==
  \A w \in Writers : UniquePositive(proc[w].base)

\* C3 (Spec): the ID addRecord assigns is larger than every ID of the table
\* it loaded: the largest plus one, and 1 for an empty table; the appended
\* record carries it.
C3_NewIdAboveLoaded ==
  \A w \in Writers :
    (proc[w].op = "add" /\ proc[w].res \notin {"invalid", "failed"}) =>
      /\ \A x \in IdsOf(proc[w].base) : proc[w].id > x
      /\ proc[w].base = <<>> => proc[w].id = 1
      /\ proc[w].base # <<>> => (proc[w].id - 1) \in IdsOf(proc[w].base)
      /\ proc[w].df[Len(proc[w].df)].ID = Num(proc[w].id)
      /\ proc[w].res = "ok" => recSheet[Len(recSheet)].v.ID = Num(proc[w].id)

\* an add into a table whose largest ID is not its row count has been saved
C3_Witness ==
  /\ proc[1].op = "add" /\ proc[1].res = "ok"
  /\ Len(proc[1].base) = 1 /\ proc[1].id = 3

\* C4 (SpecFail), as claimed: a handler that ended on a raised worksheet
\* call left both sheets as they were when it started.
C4_FailureLeavesSheetsUntouched ==
  \A w \in Writers :
    proc[w].res = "failed" =>
      recSheet = proc[w].pre.rec /\ staffSheet = proc[w].pre.staff

\* the derived cells of a stored row agree with its other cells
Derived(r) ==
  /\ r.totalIncome = Num(Round2(r.serviceIncome.v + r.tip.v))
  /\ r.hours = Num(HoursOf(r.durationMinutes.v))

\* the stored row holds what the form submitted
Submitted(r, f) ==
  /\ r.durationMinutes = Num(f.durationMinutes)
  /\ r.serviceIncome = Num(f.serviceIncome)
  /\ r.tip = Num(f.tip)

\* C5 (SpecCalc): when addRecord or updateRecord has succeeded, the row it
\* wrote holds the submitted duration, income and tip, its total is
\* round(income + tip, 2) and its hours are round(duration / 60, 2).
C5_WrittenRecordDerived ==
  \A w \in Writers :
    /\ (proc[w].op = "add" /\ proc[w].res = "ok") =>
         /\ Submitted(recSheet[Len(recSheet)].v, proc[w].form)
         /\ Derived(recSheet[Len(recSheet)].v)
    /\ (proc[w].op = "upd" /\ proc[w].res = "ok") =>
         /\ Submitted(recSheet[FindIdx(proc[w].base, proc[w].id) + 1].v,
                      proc[w].form)
         /\ Derived(recSheet[FindIdx(proc[w].base, proc[w].id) + 1].v)

\* an update has been saved whose total is a tie rounded to the even cent
\* and whose hours differ from those the row had
C5_Witness ==
  /\ proc[1].op = "upd" /\ proc[1].res = "ok"
  /\ proc[1].form.serviceIncome + proc[1].form.tip = 70125
  /\ recSheet[FindIdx(proc[1].base, proc[1].id) + 1].v.totalIncome = Num(70120)
  /\ proc[1].base[FindIdx(proc[1].base, proc[1].id)].hours
       # Num(HoursOf(proc[1].form.durationMinutes))

\* C6 (Spec), as claimed: after a handler has rewritten the Records sheet,
\* every stored row has total = round(income + tip, 2) and
\* hours = round(duration / 60, 2), rows loaded with a back-filled column
\* included.
C6_EveryStoredRowDerived ==
  \A w \in Writers :
    (proc[w].op \in {"add", "upd", "del", "delall"} /\ proc[w].res = "ok") =>
      \A i \in 2..Len(recSheet) : Derived(recSheet[i].v)

C8_ReportedCountIsRemoved ==
  \A w \in Writers :
    (proc[w].op = "del" /\ proc[w].res = "ok") =>
      proc[w].cnt = Len(proc[w].base) - Len(proc[w].df)

\* C9 (SpecConc): updateRecord decides on the sheet as it stands when the
\* save is pressed: if the ID is not in the table that sheet loads as, the
\* run ends with the not-found error, has written nothing and writes
\* nothing; otherwise it does not report not-found.
C9_UpdateOfMissingIdWritesNothing ==
  [][\A w \in Writers :
       (proc[w].pc = "upd_reload" /\ proc'[w].pc # "upd_reload"
          /\ proc'[w].res # "failed") =>
         IF proc[w].id \notin IdsOf(load_records(recSheet))
         THEN /\ proc'[w].res = "notfound"
              /\ proc'[w].pc = "done"
              /\ proc'[w].nw = 0
              /\ recSheet' = recSheet
              /\ staffSheet' = staffSheet
         ELSE proc'[w].res # "notfound"]_vars

\* an update has ended not-found: the other session deleted the row
C9_Witness ==
  \E w \in Writers :
    /\ proc[w].op = "upd" /\ proc[w].res = "notfound"
    /\ proc[w].id \notin IdsOf(load_records(recSheet))
    /\ proc[w].id \in IdsOf(load_records(proc[w].pre.rec))

\* C10 (SpecConc), as claimed: deleteRecords with a selected ID that the
\* reloaded table lacks ends with a not-found error and writes nothing.
C10_DeleteOfMissingIdWritesNothing ==
  \A w \in Writers :
    (/\ proc[w].op = "del"
     /\ proc[w].pc \notin {"idle", "del_reload"}
     /\ proc[w].res # "failed"
     /\ ~(proc[w].ids \subseteq IdsOf(proc[w].base))) =>
      proc[w].pc = "done" /\ proc[w].res = "notfound" /\ proc[w].nw = 0

\* C11 (SpecValid): addRecord submitted with an empty employee name or an
\* empty client name ends with the validation error, having written to
\* neither sheet: no record appended, no name put on the roster; a
\* submission with both names is not rejected.
C11_InvalidAddWritesNothing ==
  \A w \in Writers :
    (proc[w].op = "add" /\ proc[w].res # "failed") =>
      IF proc[w].form.employeeName = "" \/ proc[w].form.clientName = ""
      THEN /\ proc[w].pc = "done"
           /\ proc[w].res = "invalid"
           /\ proc[w].nw = 0
           /\ recSheet = proc[w].pre.rec
           /\ staffSheet = proc[w].pre.staff
      ELSE proc[w].res # "invalid"

\* an add without a client name, for an employee the roster does not hold,
\* has been rejected on a table that holds records
C11_Witness ==
  /\ proc[1].op = "add" /\ proc[1].res = "invalid"
  /\ proc[1].form.clientName = ""
  /\ proc[1].form.employeeName # ""
  /\ proc[1].form.employeeName \notin SeqToSet(load_staff(staffSheet))
  /\ Len(recSheet) >= 2

NoDuplicates(names) ==
  \A i, j \in 1..Len(names) : i # j => names[i] # names[j]

\* C12 (SpecValid): from a roster without a repeated name, whatever
\* handlers one session runs (addStaff, removeStaff, addRecord and
\* updateRecord among them), no name is on the Staff sheet twice, names
\* compared exactly; addStaff of a name the roster holds ends with the
\* "exists" warning and has written nothing.
C12_RosterNamesUnique ==
  /\ NoDuplicates(load_staff(staffSheet))
  /\ \A w \in Writers :
       (/\ proc[w].op = "addstaff"
        /\ proc[w].name \in SeqToSet(load_staff(proc[w].pre.staff))) =>
         /\ proc[w].pc = "done"
         /\ proc[w].res = "exists"
         /\ proc[w].nw = 0
         /\ staffSheet = proc[w].pre.staff
         /\ recSheet = proc[w].pre.rec

\* addStaff of the second of two names on the roster has been turned down
C12_Witness ==
  /\ proc[1].op = "addstaff" /\ proc[1].res = "exists"
  /\ Len(load_staff(staffSheet)) = 2
  /\ proc[1].name = load_staff(staffSheet)[2]

\* C13 (SpecRoster), as claimed: when addRecord or updateRecord has
\* succeeded, the employee name of the written record is on the roster.
C13_WrittenEmployeeOnRoster ==
  \A w \in Writers :
    (proc[w].op \in {"add", "upd"} /\ proc[w].res = "ok") =>
      proc[w].form.employeeName \in SeqToSet(load_staff(staffSheet))

\* C13 (SpecRoster), amended: when addRecord or updateRecord has succeeded
\* with a non-empty employee name, that name is on the roster: appended as
\* the last name when the roster lacked it, the Staff sheet untouched when
\* the roster held it; an update that keeps an empty employee name succeeds
\* and leaves the Staff sheet untouched.
C13_NamedEmployeeOnRoster ==
  \A w \in Writers :
    (proc[w].op \in {"add", "upd"} /\ proc[w].res = "ok") =>
      LET n == proc[w].form.employeeName
          old == load_staff(proc[w].pre.staff)
      IN IF n = "" \/ n \in SeqToSet(old)
         THEN staffSheet = proc[w].pre.staff
         ELSE load_staff(staffSheet) = Append(old, n)

\* an update that gave a record to another employee, whom the roster
\* lacked, has been saved
C13_Witness ==
  /\ proc[1].op = "upd" /\ proc[1].res = "ok"
  /\ proc[1].form.employeeName # ""
  /\ proc[1].form.employeeName \notin SeqToSet(load_staff(proc[1].pre.staff))
  /\ proc[1].base[FindIdx(proc[1].base, proc[1].id)].employeeName
       # proc[1].form.employeeName
  /\ load_staff(proc[1].pre.staff) # <<>>

\* the ID cells of a stored sheet as the repair of load_records receives
\* them, and as it leaves them
IdCells(sheet) ==
  LET recs == get_all_records(sheet)
  IN AsTuple([i \in 1..Len(recs) |-> BackFill(recs[i]).ID])

LoadedIds(sheet) ==
  LET df == load_records(sheet)
  IN AsTuple([i \in 1..Len(df) |-> df[i].ID])

\* C14 (Spec): the repair of the ID column on load changes no ID cell that
\* holds a number, so a column of valid IDs loads as it is; repairing the
\* repaired column changes nothing, and the table a handler reloads (edit
\* and delete load twice with no save in between) holds the IDs its form
\* was built from; a column in which every cell is blank or text loads
\* as 1..N in row order.
C14_RepairIdempotent ==
  /\ \A cells \in {IdCells(recSheet)}, ids \in {LoadedIds(recSheet)} :
       /\ \A i \in 1..Len(cells) : IsNum(cells[i]) => ids[i] = cells[i]
       /\ RepairIds(ids) = [i \in 1..Len(ids) |-> ids[i].v]
       /\ (\A i \in 1..Len(cells) : ~IsNum(cells[i])) =>
            \A i \in 1..Len(cells) : ids[i] = Num(i)
  /\ \A w \in Writers :
       /\ (proc[w].op = "upd" /\ proc[w].pc \notin {"idle", "upd_reload"}) =>
            proc[w].res # "notfound" /\ proc[w].id \in IdsOf(proc[w].base)
       /\ (proc[w].op = "del" /\ proc[w].pc \notin {"idle", "del_reload"}) =>
            proc[w].ids \subseteq IdsOf(proc[w].base)

\* a handler has loaded two rows whose ID cells were a blank and a word:
\* they are numbered 1 and 2
C14_Witness ==
  /\ Len(proc[1].base) = 2
  /\ IdCells(proc[1].pre.rec) = <<Txt(""), Txt("x")>>
  /\ proc[1].base[1].ID = Num(1) /\ proc[1].base[2].ID = Num(2)

\* the record an addRecord run built from its form and the table it loaded
AddedRecord(p) == NewRecord(p.form, p.id)

\* C15 (SpecConc): two sessions add a record from the same loaded table and
\* nothing locks the sheet.  When the later one stores its rows onto the
\* sheet it has cleared, after the earlier one reported success, it reports
\* success too and the Records table is the table it loaded plus its own
\* record: the earlier session's record is gone.
C15_LaterOverwriteDiscardsEarlier ==
  [][\A w, v \in Writers :
       (/\ w # v
        /\ proc[w].op = "add" /\ proc[w].pc = "rec_rows"
        /\ proc'[w].pc = "done"
        /\ proc[v].op = "add" /\ proc[v].res = "ok"
        /\ proc[v].base = proc[w].base
        /\ recSheet = <<HeaderRow(ColSet)>>) =>
         /\ proc'[w].res = "ok"
         /\ load_records(recSheet')
              = Append(proc[w].base, AddedRecord(proc[w]))
         /\ AddedRecord(proc[v]) # AddedRecord(proc[w]) =>
              AddedRecord(proc[v]) \notin SeqToSet(load_records(recSheet'))]_vars

\* both adds have reported success, they loaded the same one-row table, and
\* the table holds that row and the record of one session only
C15_Witness ==
  \E w, v \in Writers :
    /\ w # v
    /\ proc[w].op = "add" /\ proc[w].res = "ok"
    /\ proc[v].op = "add" /\ proc[v].res = "ok"
    /\ proc[v].base = proc[w].base /\ Len(proc[w].base) = 1
    /\ AddedRecord(proc[v]) # AddedRecord(proc[w])
    /\ load_records(recSheet) = Append(proc[w].base, AddedRecord(proc[w]))
    /\ AddedRecord(proc[v]) \notin SeqToSet(load_records(recSheet))

\* s has one row for every (date, employee) pair of df and no other row,
\* and each row holds the sums over the rows of df that have its pair
IsSummaryOf(s, df) ==
  /\ \A i \in 1..Len(df) :
       Cardinality({k \in 1..Len(s) :
                      /\ s[k].date = df[i].date
                      /\ s[k].employeeName = df[i].employeeName}) = 1
  /\ \A k \in 1..Len(s) :
       LET rows == {i \in 1..Len(df) :
                      /\ df[i].date = s[k].date
                      /\ df[i].employeeName = s[k].employeeName}
       IN /\ rows # {}
          /\ \A c \in {"hours", "serviceIncome", "tip", "totalIncome"} :
               s[k][c] = Num(SumCol(df, rows, c))

\* C16 (SpecView): the summary the page shows for its filtered frame, and
\* the summary sheet of the full export for the table it loaded, have
\* exactly one row per (date, employee) pair of their table, holding the
\* sums of hours, income, tip and total over the rows of that pair; for an
\* empty table the summary is empty and the export does not fail.
C16_SummaryGroupsAndSums ==
  \A w \in Writers :
    /\ (proc[w].op = "view" /\ proc[w].pc = "exp_load") =>
         IsSummaryOf(proc[w].summary, proc[w].frame)
    /\ (proc[w].op = "view" /\ proc[w].res = "ok") =>
         /\ IsSummaryOf(proc[w].summary, proc[w].frame)
         /\ IsSummaryOf(proc[w].book.summary, proc[w].df)
         /\ proc[w].df = <<>> => proc[w].book.summary = <<>>

\* the page has summed two rows of one date and employee into one row
C16_Witness ==
  /\ proc[1].op = "view" /\ proc[1].res = "ok"
  /\ Len(proc[1].frame) = 2 /\ Len(proc[1].summary) = 1
  /\ proc[1].frame[1].totalIncome.v > 0
  /\ proc[1].frame[2].totalIncome.v > 0
  /\ proc[1].summary[1].totalIncome.v
       = proc[1].frame[1].totalIncome.v + proc[1].frame[2].totalIncome.v

\* the positions of the rows of df whose date lies in month ym
InMonth(df, ym) == {i \in 1..Len(df) : YearMonth(df[i].date) = ym}

\* C17 (SpecView): in the workbook of the full export, every year-month of
\* a date of the loaded table has exactly one per-month sheet and every
\* per-month sheet is that of a month of the table; the sheet holds the
\* rows of its month in their order in the table, then one row of totals
\* whose serviceIncome, tip and totalIncome are the sums over those rows
\* (row count: the month's rows plus one); the sheets are in ascending
\* month order; a row whose date does not parse is in no per-month sheet.
C17_MonthSheets ==
  \A w \in Writers :
    (proc[w].op = "view" /\ proc[w].res = "ok") =>
      LET df == proc[w].df
          months == proc[w].book.months
      IN /\ \A i \in 1..Len(df) :
              ParsesAsDate(df[i].date) =>
                Cardinality({k \in 1..Len(months) :
                               months[k].name = YearMonth(df[i].date)}) = 1
         /\ \A k, l \in 1..Len(months) :
              k < l => MonthLess(months[k].name, months[l].name)
         /\ \A k \in 1..Len(months) :
              LET rows == months[k].rows
                  src == InMonth(df, months[k].name)
                  nth(j) == CHOOSE i \in src :
                              Cardinality({x \in src : x <= i}) = j
                  total == rows[Len(rows)]
              IN /\ src # {}
                 /\ Len(rows) = Cardinality(src) + 1
                 /\ \A j \in 1..Cardinality(src) :
                      rows[j] = df[nth(j)] /\ ParsesAsDate(rows[j].date)
                 /\ total.date = "Total"
                 /\ \A c \in {"serviceIncome", "tip", "totalIncome"} :
                      total[c] = Num(SumCol(df, src, c))

\* an export of a table whose first row is of November and whose second
\* row is of October: the October sheet comes first
C17_Witness ==
  /\ proc[1].op = "view" /\ proc[1].res = "ok"
  /\ Len(proc[1].df) = 2
  /\ YearMonth(proc[1].df[1].date) = <<2025, 11>>
  /\ YearMonth(proc[1].df[2].date) = <<2025, 10>>
  /\ Len(proc[1].book.months) = 2
  /\ proc[1].book.months[1].name = <<2025, 10>>
  /\ proc[1].book.months[1].rows[1] = proc[1].df[2]

\* C18 (SpecConc): two sessions that have both loaded the table for an
\* add, neither having written yet, hold the same new ID: the largest ID
\* of the stored table plus one (1 for an empty table), and each puts it
\* on the record it is about to save.
C18_ConcurrentAddsSameId ==
  \A w, v \in Writers :
    (/\ w # v
     /\ proc[w].op = "add" /\ proc[w].pc \notin {"idle", "done"}
     /\ proc[v].op = "add" /\ proc[v].pc \notin {"idle", "done"}
     /\ proc[w].nw = 0 /\ proc[v].nw = 0) =>
      /\ proc[w].id = proc[v].id
      /\ proc[w].base = load_records(recSheet)
      /\ proc[w].id = IF proc[w].base = <<>> THEN 1
                      ELSE SetMax(IdsOf(proc[w].base)) + 1
      /\ proc[w].df[Len(proc[w].df)].ID = Num(proc[w].id)

\* both adds loaded the same one-row table (so each loaded before the
\* other cleared the sheet), both have reported success, and the sheet
\* holds the records of both, which differ and carry the same ID
C18_Witness ==
  \E i, j \in 2..Len(recSheet) :
    /\ proc[1].op = "add" /\ proc[1].res = "ok"
    /\ proc[2].op = "add" /\ proc[2].res = "ok"
    /\ proc[1].base = proc[2].base /\ Len(proc[1].base) = 1
    /\ proc[1].id = proc[2].id
    /\ recSheet[i] = DataRow(AddedRecord(proc[1]))
    /\ recSheet[j] = DataRow(AddedRecord(proc[2]))
    /\ AddedRecord(proc[1]) # AddedRecord(proc[2])
    /\ \E a, b \in 1..Len(load_records(recSheet)) :
         /\ a # b
         /\ load_records(recSheet)[a] = AddedRecord(proc[1])
         /\ load_records(recSheet)[b] = AddedRecord(proc[2])

\* C19 (Spec): when updateRecord(id, fields) has succeeded, the table the
\* sheet loads as has as many rows as the table it loaded as before; one
\* row, whose ID is id, holds the submitted fields at the position and
\* with the ID and service type it had; every other row is as it was, cell
\* for cell; and the sheet is a header followed by those rows.
C19_UpdateChangesOnlyItsRow ==
  \A w \in Writers :
    (proc[w].op = "upd" /\ proc[w].res = "ok") =>
      LET old == load_records(proc[w].pre.rec)
          new == load_records(recSheet)
      IN /\ Len(new) = Len(old)
         /\ recSheet = <<HeaderRow(ColSet)>> \o
                          [i \in 1..Len(new) |-> DataRow(new[i])]
         /\ \E k \in 1..Len(old) :
              /\ old[k].ID = Num(proc[w].id)
              /\ new[k].ID = old[k].ID
              /\ new[k].serviceType = old[k].serviceType
              /\ new[k].date = proc[w].form.date
              /\ new[k].employeeName = proc[w].form.employeeName
              /\ new[k].clientName = proc[w].form.clientName
              /\ Submitted(new[k], proc[w].form)
              /\ \A i \in 1..Len(old) : i # k => new[i] = old[i]

\* an update of the first of two rows, whose ID is the larger one, has
\* been saved with another date and employee
C19_Witness ==
  /\ proc[1].op = "upd" /\ proc[1].res = "ok"
  /\ Len(proc[1].base) = 2
  /\ proc[1].base[1].ID = Num(2) /\ proc[1].base[2].ID = Num(1)
  /\ proc[1].id = 2
  /\ load_records(recSheet)[1].ID = Num(2)
  /\ load_records(recSheet)[1].date # proc[1].base[1].date
  /\ load_records(recSheet)[1].employeeName # proc[1].base[1].employeeName
  /\ load_records(recSheet)[2] = proc[1].base[2]

\* an add that has passed validation and assigned its ID
Assigning(p) ==
  p.op = "add" /\ p.pc # "idle" /\ p.res \notin {"invalid", "failed"}

\* C20 (SpecNoted), as claimed: an ID that a record has held is never
\* assigned to a new record.
C20_IdNeverReused ==
  \A w \in Writers : Assigning(proc[w]) => proc[w].id \notin assigned

\* C20 (SpecNoted), amended: the ID of a new record is larger than every ID
\* the table holds when it is added and at most one more than the largest
\* ID ever held, and no two stored records ever share an ID; an ID that a
\* record has held is assigned again only when that record and every
\* record with a larger ID have been deleted.
C20_IdReusedOnlyAboveStored ==
  /\ UniquePositive(load_records(recSheet))
  /\ \A w \in Writers :
       Assigning(proc[w]) =>
         /\ IdsOf(proc[w].base) \subseteq assigned
         /\ \A x \in IdsOf(proc[w].base) : proc[w].id > x
         /\ proc[w].id <= SetMax(assigned \cup {0}) + 1
         /\ proc[w].id \in assigned =>
              \A x \in assigned : x >= proc[w].id => x \notin IdsOf(proc[w].base)

\* after every record was deleted, an add has been saved with ID 1, which
\* a deleted record held
C20_Witness ==
  /\ Assigning(proc[1]) /\ proc[1].res = "ok"
  /\ proc[1].id = 1 /\ 1 \in assigned /\ 2 \in assigned
  /\ Len(recSheet) = 2
  /\ recSheet[2].v.ID = Num(1)

====
